---- MODULE Spec2Model ----
(***************************************************************************)
(* Model of rhizoscan/root/pipeline/arabidopsis.py: the stages             *)
(* segment_image and detect_leaves and the six-stage pipeline declaration. *)
(*                                                                         *)
(* The file is Python 2 / old-numpy code (print statements, basestring,    *)
(* unary minus on a boolean array), and is modelled with those semantics:  *)
(*   - image[bbox] with a tuple of slices is a VIEW of the caller's array; *)
(*   - -pmask on a boolean array is the logical negation;                  *)
(*   - 255/plant_number on two ints is the floor quotient.                 *)
(* Pixel intensities are fixed-point numbers in units of 2^-10, so that    *)
(* the clamp 2**-10 of the source is the integer 1.                        *)
(***************************************************************************)
EXTENDS Integers, Sequences, FiniteSets, TLC

\* ---------------------------------------------------------------- bounds
H == 3
W == 3
MaxLevel == 2
MaxPlantNumber == 256
MaxCalls == 2

\* one unit of intensity (1.0) in fixed point, 2^10
One == 1024

Pix == (0..(H-1)) \X (0..(W-1))

\* ------------------------------------------------------- array helpers
\* an array holds its elements: the function is tabulated once, when it is built
Array(f) == f @@ <<>>

Max2(a, b) == IF a >= b THEN a ELSE b
Min2(a, b) == IF a <= b THEN a ELSE b

\* a.max() of a non-empty array
ArrayMax(a) == CHOOSE m \in {a[p] : p \in DOMAIN a} : \A q \in DOMAIN a : a[q] <= m

\* pmask == pmask.max()
BinarizeTruthy(pm) == Array([p \in DOMAIN pm |-> pm[p] > 0])
Binarize(pm) == LET m == ArrayMax(pm) IN Array([p \in DOMAIN pm |-> pm[p] = m])

\* scipy.ndimage.find_objects on a boolean array (labels 0 and 1): one raster
\* scan that grows the region of label 1; box is <<>> while the label is unseen,
\* else <<r0, r1, c0, c1>> standing for (slice(r0,r1), slice(c0,c1)).
GrowBoxClosed(box, r, c) ==
    IF box = <<>> THEN <<r, r, c, c>>
    ELSE << Min2(box[1], r), Max2(box[2], r), Min2(box[3], c), Max2(box[4], c) >>
GrowBox(box, r, c) ==
    IF box = <<>> THEN <<r, r + 1, c, c + 1>>
    ELSE << Min2(box[1], r), Max2(box[2], r + 1), Min2(box[3], c), Max2(box[4], c + 1) >>

RECURSIVE ScanObjects(_, _, _)
ScanObjects(mask, i, box) ==
    IF i = H * W THEN box
    ELSE LET r == i \div W
             c == i % W
         IN  ScanObjects(mask, i + 1, IF mask[<<r, c>>] THEN GrowBox(box, r, c) ELSE box)

\* the list find_objects returns: one entry per label 1..max, none if all false
FindObjects(mask) ==
    LET box == ScanObjects(mask, 0, <<>>) IN IF box = <<>> THEN <<>> ELSE <<box>>

BoxH(b) == b[2] - b[1]
BoxW(b) == b[4] - b[3]
CropDom(b) == (0..(BoxH(b) - 1)) \X (0..(BoxW(b) - 1))
InBox(b, p) == p[1] >= b[1] /\ p[1] < b[2] /\ p[2] >= b[3] /\ p[2] < b[4]

\* a[bbox]: the elements of a seen through the slices, in crop coordinates
Crop(a, b) == Array([q \in CropDom(b) |-> a[<<q[1] + b[1], q[2] + b[3]>>]])

\* scipy 'reflect' boundary (d c b a | a b c d | d c b a)
Reflect(i, n) == LET j == i % (2 * n) IN IF j >= n THEN 2 * n - 1 - j ELSE j

\* Gaussian kernel for sigma = 1, truncate = 4.0 (radius 4), in units of 2^-10;
\* smooth is drawn from {0, 1}, so 1 is the only sigma the filter is used with
Kernel == <<408, 248, 55, 5, 0>>
Abs(k) == IF k < 0 THEN -k ELSE k
Taps == (-4)..4

RECURSIVE SumOver(_, _)
SumOver(S, f) ==
    IF S = {} THEN 0
    ELSE LET x == CHOOSE y \in S : TRUE IN f[x] + SumOver(S \ {x}, f)

RoundDiv(a, b) == (2 * a + b) \div (2 * b)

Gauss1D(a, h, w, axis) ==
    Array([q \in DOMAIN a |->
        RoundDiv(SumOver(Taps,
            [k \in Taps |-> Kernel[Abs(k) + 1] *
                (IF axis = 0 THEN a[<<Reflect(q[1] + k, h), q[2]>>]
                             ELSE a[<<q[1], Reflect(q[2] + k, w)>>])]), One)])

\* scipy.ndimage.gaussian_filter(a, sigma=1): axis 0, then axis 1
GaussianFilter(a, h, w) == Gauss1D(Gauss1D(a, h, w, 0), h, w, 1)

\* scipy.ndimage.binary_erosion, default cross structure, border_value 0
Neigh4(q) == {<<q[1] - 1, q[2]>>, <<q[1] + 1, q[2]>>, <<q[1], q[2] - 1>>, <<q[1], q[2] + 1>>}
Erode1(m) == Array([q \in DOMAIN m |-> m[q] /\ \A n \in Neigh4(q) : n \in DOMAIN m /\ m[n]])
RECURSIVE BinaryErosion(_, _)
BinaryErosion(m, it) == IF it = 0 THEN m ELSE BinaryErosion(Erode1(m), it - 1)

\* scipy.ndimage.label, default 4-connectivity: the component of pixel q
RECURSIVE GrowRegion(_, _)
GrowRegion(m, S) ==
    LET T == S \cup {q \in DOMAIN m : m[q] /\ \E n \in Neigh4(q) : n \in S}
    IN  IF T = S THEN S ELSE GrowRegion(m, T)
Component(m, q) == GrowRegion(m, {q})

\* raster rank of a pixel of a crop of width w
Rank(q, w) == q[1] * w + q[2]
FirstOf(S, w) == CHOOSE q \in S : \A r \in S : Rank(q, w) <= Rank(r, w)

\* labels are numbered 1, 2, ... in raster order of each component's first pixel
Label(m, w) ==
    LET firsts == {FirstOf(Component(m, q), w) : q \in {x \in DOMAIN m : m[x]}}
    IN  Array([q \in DOMAIN m |->
            IF ~m[q] THEN 0
            ELSE Cardinality({f \in firsts : Rank(f, w) <= Rank(FirstOf(Component(m, q), w), w)})])

\* ------------------------------------------- collaborators (not in src/)
\* remove_background: suppresses the uniform background level of the image
RemoveBackground(img, distance) ==
    IF DOMAIN img = {} THEN img ELSE
    LET lo == CHOOSE m \in {img[q] : q \in DOMAIN img} : \A q \in DOMAIN img : m <= img[q]
    IN  Array([q \in DOMAIN img |-> img[q] - lo])

\* segment_root: a boolean mask of candidate root pixels, by a global level;
\* dark selects which side of the level counts as root
SegLevel == One \div 16
SegmentRoot(img, dark) ==
    Array([q \in DOMAIN img |-> IF dark THEN img[q] < SegLevel ELSE img[q] > SegLevel])

\* clean_label: drops the labels of components smaller than min_dim pixels
CleanLabel(cluster, min_dim) ==
    Array([q \in DOMAIN cluster |->
        IF cluster[q] > 0
           /\ Cardinality({r \in DOMAIN cluster : cluster[r] = cluster[q]}) >= min_dim
        THEN cluster[q] ELSE 0])

\* seed detector: true pixels of the top row of the mask, left to right,
\* numbered 1..leaf_number
DetectLeavesCollab(mask, img, leaf_number) ==
    Array([q \in DOMAIN mask |->
        IF q[1] = 0 /\ mask[q]
        THEN LET k == Cardinality({r \in DOMAIN mask : r[1] = 0 /\ mask[r] /\ r[2] <= q[2]})
             IN  IF k <= leaf_number THEN k ELSE 0
        ELSE 0])

\* ------------------------------------------------------- segment_image
\* img*pmask and pmask.astype('f')
TimesMask(img, pm) == Array([q \in DOMAIN img |-> IF pm[q] THEN img[q] ELSE 0])
AsFloat(pm) == Array([q \in DOMAIN pm |-> IF pm[q] THEN One ELSE 0])

\* lines 56-57: the normalised smoothed image
SmoothImg(img, pm, h, w) ==
    LET num == GaussianFilter(TimesMask(img, pm), h, w)
        den == GaussianFilter(AsFloat(pm), h, w)
    IN  Array([q \in DOMAIN img |-> RoundDiv(num[q] * One, Max2(den[q], 1))])

\* line 58, img[pmask] = smooth_img[pmask], where img = image[bbox] is a view:
\* the caller's buffer after the store
ViewStore(image, b, pm, vals) ==
    Array([p \in DOMAIN image |->
        IF InBox(b, p) /\ pm[<<p[1] - b[1], p[2] - b[3]>>]
        THEN vals[<<p[1] - b[1], p[2] - b[3]>>] ELSE image[p]])

\* the caller's image buffer after lines 53-58
ImageAfterSmooth(image, b, pm, smooth) ==
    IF smooth = 0 THEN image
    ELSE ViewStore(image, b, pm, SmoothImg(Crop(image, b), pm, BoxH(b), BoxW(b)))

\* line 68, rmask[-pmask] = 0
RestrictKeep(rm, pm) == rm
Restrict(rm, pm) == Array([q \in DOMAIN rm |-> rm[q] /\ pm[q]])

\* lines 69-72
CleanAlways(rm, w, min_dimension) ==
    LET cluster == CleanLabel(Label(rm, w), 2) IN Array([q \in DOMAIN rm |-> cluster[q] > 0])
Clean(rm, w, min_dimension) ==
    IF min_dimension > 0
    THEN LET cluster == CleanLabel(Label(rm, w), min_dimension)
         IN  Array([q \in DOMAIN rm |-> cluster[q] > 0])
    ELSE rm

\* collaborator call sites of segment_image, in order (lines 62, 67, 71)
SegmentCalls(min_dimension) ==
    <<"remove_background", "segment_root">>
        \o (IF min_dimension > 0 THEN <<"clean_label">> ELSE <<>>)

\* the calls actually made when collaborator f raises: an exception ends the
\* function at the call that raised it (no try/except in the stage)
RECURSIVE CallsMadeRetry(_, _)
CallsMadeRetry(seq, f) ==
    IF seq = <<>> THEN <<>>
    ELSE IF Head(seq) = f THEN <<f, f>>
    ELSE <<Head(seq)>> \o CallsMadeRetry(Tail(seq), f)
RECURSIVE CallsMade(_, _)
CallsMade(seq, f) ==
    IF seq = <<>> THEN <<>>
    ELSE IF Head(seq) = f THEN <<f>>
    ELSE <<Head(seq)>> \o CallsMade(Tail(seq), f)

Range(seq) == {seq[i] : i \in 1..Len(seq)}
Returned == [kind |-> "returned", error |-> "none"]
Raised(e) == [kind |-> "raised", error |-> e]
NoArray == <<>>

\* segment_image(image, pmask, root_max_radius, min_dimension, smooth):
\* the outcome, the returned (rmask, bbox), the caller's image buffer afterwards,
\* the collaborator calls made, and the local rmask before line 69
SegmentImage(image, pmask0, root_max_radius, min_dimension, smooth0, f, dark) ==
    LET pm0  == Binarize(pmask0)
        objs == FindObjects(pm0)
    IN  IF objs = <<>>
        THEN [outcome |-> Raised("IndexError"), rmask |-> NoArray, bbox |-> <<>>,
              image |-> image, calls |-> <<>>, pre7 |-> NoArray]
        ELSE
        LET b     == objs[1]
            pm    == Crop(pm0, b)
            image1 == ImageAfterSmooth(image, b, pm, smooth0)
            img1  == Crop(image1, b)
            made  == CallsMade(SegmentCalls(min_dimension), f)
            img2  == RemoveBackground(img1, root_max_radius)
            er    == BinaryErosion(pm, root_max_radius)
            img3  == TimesMask(img2, er)
            rm1   == Restrict(SegmentRoot(img3, dark), pm)
            rm2   == Clean(rm1, BoxW(b), min_dimension)
        IN  IF f \in Range(SegmentCalls(min_dimension))
            THEN [outcome |-> Raised(f), rmask |-> NoArray, bbox |-> <<>>,
                  image |-> image1, calls |-> made,
                  pre7 |-> IF f = "clean_label" THEN rm1 ELSE NoArray]
            ELSE [outcome |-> Returned, rmask |-> rm2, bbox |-> b,
                  image |-> image1, calls |-> made, pre7 |-> rm1]

\* ------------------------------------------------------- detect_leaves
\* line 87: ser_scale = 255/plant_number, on two Python 2 ints
SerScaleOff(plant_number0) == 256 \div plant_number0
SerScale(plant_number0) == 255 \div plant_number0

\* the serializer of the Image container (not in src/): value * scale, as uint8
Stored(v, scale) == (v * scale) % 256

DetectLeaves(rm, image, b, plant_number0, f) ==
    IF f = "detect_leaves"
    THEN [outcome |-> Raised(f), seed_map |-> NoArray, ser_scale |-> 0,
          calls |-> <<"detect_leaves">>]
    ELSE [outcome |-> Returned,
          seed_map |-> DetectLeavesCollab(rm, Crop(image, b), plant_number0),
          ser_scale |-> SerScale(plant_number0), calls |-> <<"detect_leaves">>]

\* ------------------------------------------------------------ pipeline
\* lines 91-93: the declared stage order
PipelineStagesSwapped ==
    <<"load_image", "detect_frame", "detect_leaves", "segment_image",
      "compute_graph", "compute_tree">>
PipelineStages ==
    <<"load_image", "detect_frame", "segment_image", "detect_leaves",
      "compute_graph", "compute_tree">>

\* lines 45-46 and 83-84: the nodes' non-defaulted parameters and declared outputs
SegmentImageInputs == {"image", "pmask"}
SegmentImageOutputs == {"rmask", "bbox"}
DetectLeavesInputs == {"rmask", "image", "bbox"}
DetectLeavesOutputs == {"seed_map"}

\* the external stages' inputs and outputs (not in src/)
ExternalInputs(s) ==
    CASE s = "load_image" -> {}
      [] s = "detect_frame" -> {"image"}
      [] s = "compute_graph" -> {"rmask", "seed_map"}
      [] s = "compute_tree" -> {"graph"}
ExternalOutputs(s) ==
    CASE s = "load_image" -> {"image"}
      [] s = "detect_frame" -> {"pmask"}
      [] s = "compute_graph" -> {"graph"}
      [] s = "compute_tree" -> {"tree"}

StageInputs(s) ==
    CASE s = "segment_image" -> SegmentImageInputs
      [] s = "detect_leaves" -> DetectLeavesInputs
      [] OTHER -> ExternalInputs(s)
StageOutputs(s) ==
    CASE s = "segment_image" -> SegmentImageOutputs
      [] s = "detect_leaves" -> DetectLeavesOutputs
      [] OTHER -> ExternalOutputs(s)

\* --------------------------------------------------------------- state
VARIABLES
    image,            \* the caller's image buffer
    pmask,            \* the caller's plate mask
    root_max_radius, min_dimension, smooth, plant_number,   \* the arguments
    fault,            \* the collaborator that raises when called ("none": none)
    dark,             \* the root segmenter's polarity
    ncalls,           \* calls of segment_image made so far
    outcome, rmask, bbox, calls, pre7,      \* last segment_image call
    dl_outcome, seed_map, ser_scale, dl_calls, dl_bbox,   \* last detect_leaves call
    pc, ns, ran       \* pipeline: next stage index, names produced, stages run

vars == <<image, pmask, root_max_radius, min_dimension, smooth, plant_number,
          fault, dark, ncalls, outcome, rmask, bbox, calls, pre7,
          dl_outcome, seed_map, ser_scale, dl_calls, dl_bbox, pc, ns, ran>>

inputs == <<pmask, root_max_radius, min_dimension, smooth, plant_number, fault, dark>>
seg_vars == <<ncalls, outcome, rmask, bbox, calls, pre7>>
dl_vars == <<dl_outcome, seed_map, ser_scale, dl_calls, dl_bbox>>
pipe_vars == <<pc, ns, ran>>

Pending == [kind |-> "pending", error |-> "none"]

\* ---------------------------------------------------------- input sets
Boxes == {b \in (0..H) \X (0..H) \X (0..W) \X (0..W) : b[1] < b[2] /\ b[3] < b[4]}
RectSet(b) == {p \in Pix : InBox(b, p)}
Shapes == {RectSet(b) \cup e : b \in Boxes, e \in {{}} \cup {{p} : p \in Pix}}
PMask(shape, lo, hi) == Array([p \in Pix |-> IF p \in shape THEN hi ELSE lo])
Levels == 0..MaxLevel
LevelPairs == {l \in Levels \X Levels : l[1] <= l[2]}

Centre == <<H \div 2, W \div 2>>
Spot(p) == Array([q \in Pix |-> IF q = p THEN One ELSE 0])
Flat(v) == Array([q \in Pix |-> v])
Images == {Spot(p) : p \in Pix} \cup {Flat(0), Flat(One)}

Smooths == {0, 1}
MinDims == {0, 2}
Radii == {1, 2}
Faults == {"none", "remove_background", "segment_root", "clean_label", "detect_leaves"}

InitResults ==
    /\ ncalls = 0 /\ outcome = Pending /\ rmask = NoArray /\ bbox = <<>>
    /\ calls = <<>> /\ pre7 = NoArray
    /\ dl_outcome = Pending /\ seed_map = NoArray /\ ser_scale = 0
    /\ dl_calls = <<>> /\ dl_bbox = <<>>
    /\ pc = 1 /\ ns = {} /\ ran = <<>>

\* plate shapes, on the default image
InitShapes ==
    /\ pmask \in {PMask(s, 0, 1) : s \in Shapes}
    /\ image = Spot(Centre)
    /\ smooth \in Smooths /\ min_dimension \in MinDims /\ dark \in BOOLEAN
    /\ fault = "none" /\ plant_number = 1
    /\ root_max_radius = 1

\* plate masks of every pair of intensity levels (uniform ones included)
InitLevels ==
    /\ pmask \in {PMask(RectSet(b), l[1], l[2]) : b \in Boxes, l \in LevelPairs}
    /\ image = Spot(Centre)
    /\ smooth \in Smooths /\ min_dimension \in MinDims /\ dark = FALSE
    /\ fault = "none" /\ plant_number = 1
    /\ root_max_radius \in Radii

\* images, on rectangular plates
InitImages ==
    /\ pmask \in {PMask(RectSet(b), 0, 1) : b \in Boxes}
    /\ image \in Images
    /\ smooth \in Smooths /\ min_dimension \in MinDims /\ dark \in BOOLEAN
    /\ fault = "none" /\ plant_number = 1
    /\ root_max_radius = 1

\* failing collaborators
InitFaults ==
    /\ pmask = PMask(Pix, 0, 1)
    /\ image \in {Spot(Centre), Flat(One)}
    /\ smooth \in Smooths /\ min_dimension \in MinDims /\ dark \in BOOLEAN
    /\ fault \in Faults /\ plant_number \in 1..2
    /\ root_max_radius \in Radii

Init ==
    /\ InitResults
    /\ (InitShapes \/ InitLevels \/ InitImages \/ InitFaults)

\* ------------------------------------------------------------- actions
SegmentImageStep ==
    \E r \in {SegmentImage(image, pmask, root_max_radius, min_dimension, smooth, fault, dark)} :
        /\ image' = r.image
        /\ outcome' = r.outcome
        /\ rmask' = r.rmask
        /\ bbox' = r.bbox
        /\ calls' = r.calls
        /\ pre7' = r.pre7
        /\ ncalls' = ncalls + 1

DetectLeavesStep ==
    \E r \in {DetectLeaves(rmask, image, bbox, plant_number, fault)} :
        /\ dl_outcome' = r.outcome
        /\ seed_map' = r.seed_map
        /\ ser_scale' = r.ser_scale
        /\ dl_calls' = r.calls
        /\ dl_bbox' = bbox

\* a caller invokes segment_image(image, pmask, ...) on its buffers
CallSegmentImage ==
    /\ ncalls < MaxCalls
    /\ dl_outcome = Pending
    /\ outcome.kind # "raised"
    /\ SegmentImageStep
    /\ UNCHANGED <<inputs, dl_vars, pipe_vars>>

\* a caller invokes detect_leaves(rmask, image, bbox, ...) on segment_image's results
CallDetectLeaves ==
    /\ outcome.kind = "returned"
    /\ dl_outcome = Pending
    /\ DetectLeavesStep
    /\ UNCHANGED <<image, inputs, seg_vars, pipe_vars>>

Next == CallSegmentImage \/ CallDetectLeaves

Spec == Init /\ [][Next]_vars

\* ------------------------------------------------- the pipeline's run
\* the runner (not in src/): stages run in list order, each stage's inputs are
\* resolved by name among the outputs produced so far; a stage whose input is
\* missing, or that raises, ends the run (pc = 0)
Resolved(s) == StageInputs(s) \subseteq ns

StageAt(s) == pc \in 1..Len(PipelineStages) /\ PipelineStages[pc] = s

Advance(s, ok) ==
    /\ ran' = Append(ran, s)
    /\ pc' = IF ok THEN pc + 1 ELSE 0
    /\ ns' = IF ok THEN ns \cup StageOutputs(s) ELSE ns

ExternalStage(s) ==
    /\ Advance(s, Resolved(s))
    /\ UNCHANGED <<image, inputs, seg_vars, dl_vars>>

LoadImage == StageAt("load_image") /\ ExternalStage("load_image")
DetectFrame == StageAt("detect_frame") /\ ExternalStage("detect_frame")
ComputeGraph == StageAt("compute_graph") /\ ExternalStage("compute_graph")
ComputeTree == StageAt("compute_tree") /\ ExternalStage("compute_tree")

SegmentImageStage ==
    /\ StageAt("segment_image")
    /\ IF Resolved("segment_image")
       THEN /\ SegmentImageStep
            /\ Advance("segment_image", outcome'.kind = "returned")
       ELSE /\ Advance("segment_image", FALSE)
            /\ UNCHANGED <<image, seg_vars>>
    /\ UNCHANGED <<inputs, dl_vars>>

DetectLeavesStage ==
    /\ StageAt("detect_leaves")
    /\ IF Resolved("detect_leaves")
       THEN /\ DetectLeavesStep
            /\ Advance("detect_leaves", dl_outcome'.kind = "returned")
       ELSE /\ Advance("detect_leaves", FALSE)
            /\ UNCHANGED dl_vars
    /\ UNCHANGED <<image, inputs, seg_vars>>

NextPipeline ==
    \/ LoadImage
    \/ DetectFrame
    \/ SegmentImageStage
    \/ DetectLeavesStage
    \/ ComputeGraph
    \/ ComputeTree

InitPipeline ==
    /\ InitResults
    /\ (InitLevels \/ InitFaults)

SpecPipeline == InitPipeline /\ [][NextPipeline]_vars

\* detect_leaves for every plant number
InitLeaves ==
    /\ InitResults
    /\ root_max_radius = 1
    /\ pmask = PMask(Pix, 0, 1)
    /\ image = Spot(Centre)
    /\ smooth = 1 /\ min_dimension = 0 /\ dark = TRUE
    /\ fault = "none" /\ plant_number \in 1..MaxPlantNumber

SpecLeaves == InitLeaves /\ [][Next]_vars

\* ------------------------------------------------------------- claims
\* the plate mask of the last call, in crop coordinates
PlateCrop == Crop(Binarize(pmask), bbox)
SegReturned == ncalls > 0 /\ outcome.kind = "returned"
DlReturned == dl_outcome.kind = "returned"
Collaborators == {"remove_background", "segment_root", "clean_label", "detect_leaves"}
Count(seq, e) == Cardinality({i \in 1..Len(seq) : seq[i] = e})

\* C1: segment_image leaves every pixel of the caller's image buffer as it was
\* (stated as claimed; the store through the view image[bbox] breaks it).
C1_ImageUnchanged == [][image' = image]_vars

\* C2: every pixel of the returned root mask that lies outside the (uneroded,
\* cropped) plate mask is false, whatever the segmenter and the cleaner return.
C2_OutsidePlateFalse ==
    SegReturned =>
        \A plate \in {PlateCrop} : \A q \in DOMAIN rmask : ~plate[q] => ~rmask[q]
\* a returned mask with a pixel outside the plate that the segmenter marked as
\* root (dark polarity marks the zeroed band), after cleaning kept a component
C2_Witness ==
    /\ SegReturned /\ dark /\ min_dimension > 0
    /\ \E plate \in {PlateCrop} : \E q \in DOMAIN rmask : ~plate[q]
    /\ \E q \in DOMAIN rmask : rmask[q]

C3_MaxRegion == {p \in Pix : pmask[p] = ArrayMax(pmask)}
C3_Connected ==
    Component(Binarize(pmask), CHOOSE p \in C3_MaxRegion : TRUE) = C3_MaxRegion
\* C3: when the maximum-valued pixels of pmask form one connected region, bbox
\* is the minimal half-open rectangle enclosing them: it contains every such
\* pixel and each border row and column of the cropped mask has a true pixel.
C3_BBoxMinimal ==
    (SegReturned /\ C3_Connected) =>
        /\ bbox \in Boxes
        /\ \A p \in C3_MaxRegion : InBox(bbox, p)
        /\ \A plate \in {PlateCrop} :
              /\ \E c \in 0..(BoxW(bbox) - 1) : plate[<<0, c>>]
              /\ \E c \in 0..(BoxW(bbox) - 1) : plate[<<BoxH(bbox) - 1, c>>]
              /\ \E r \in 0..(BoxH(bbox) - 1) : plate[<<r, 0>>]
              /\ \E r \in 0..(BoxH(bbox) - 1) : plate[<<r, BoxW(bbox) - 1>>]
\* a connected, non-rectangular region whose box is a proper part of the image
C3_Witness ==
    /\ SegReturned /\ C3_Connected
    /\ Cardinality(C3_MaxRegion) = 3
    /\ bbox = <<0, 2, 1, 3>>

C4_AllZero == \A p \in Pix : pmask[p] = 0
\* C4 as claimed: a pmask without true pixels makes segment_image fail with a
\* ShapeError.
C4_ShapeErrorOnEmpty ==
    (ncalls > 0 /\ C4_AllZero) => outcome = Raised("ShapeError")
\* C4 amended: segment_image never fails on the bounding-box lookup; an
\* all-zero pmask is binarized to an all-true plate, and the call returns a
\* root mask and the bbox of the whole image unless a collaborator raises.
C4_NoErrorOnEmpty ==
    ncalls > 0 =>
        /\ outcome.error \notin {"ShapeError", "IndexError"}
        /\ (C4_AllZero /\ fault \notin Range(SegmentCalls(min_dimension))) =>
              /\ outcome.kind = "returned"
              /\ bbox = <<0, H, 0, W>>
              /\ DOMAIN rmask = Pix
C4_Witness == SegReturned /\ C4_AllZero

\* C5 as claimed: label k is stored as round(k * 255 / N), with the exact
\* quotient 255/N as scale.
C5_StoredIsRounded ==
    DlReturned =>
        \A k \in 0..plant_number :
            Stored(k, ser_scale) = RoundDiv(k * 255, plant_number)

C6_Distinct ==
    /\ \A k \in 0..plant_number : Stored(k, ser_scale) \in 0..255
    /\ \A j, k \in 0..plant_number : j < k => Stored(j, ser_scale) # Stored(k, ser_scale)
\* C6 as claimed: for every positive plant_number the stored intensities of
\* the labels 0..N are pairwise different and within 0..255.
C6_DistinctForAll == DlReturned => C6_Distinct
\* C6 amended: the same, for plant_number between 1 and 255.
C6_DistinctUpTo255 == (DlReturned /\ plant_number <= 255) => C6_Distinct
C6_Witness == DlReturned /\ plant_number = 100 /\ ser_scale = 2

C7_Order ==
    <<"load_image", "detect_frame", "segment_image", "detect_leaves",
      "compute_graph", "compute_tree">>
C7_Needs(s) ==
    CASE s = "detect_frame" -> {"image"}
      [] s = "segment_image" -> {"image", "pmask"}
      [] s = "detect_leaves" -> {"rmask", "image", "bbox"}
      [] s = "compute_graph" -> {"rmask", "seed_map"}
      [] OTHER -> {}
\* C7: the stages run in the declared order, each with its non-defaulted
\* inputs already produced by an earlier stage, and detect_leaves consumes the
\* bbox segment_image returned.
C7_PipelineOrder ==
    /\ [](Len(ran) <= Len(C7_Order) /\ ran = SubSeq(C7_Order, 1, Len(ran)))
    /\ [][ran' # ran => C7_Needs(ran'[Len(ran')]) \subseteq ns]_vars
    /\ [][dl_bbox' # dl_bbox => (dl_bbox' = bbox /\ bbox' = bbox /\ "bbox" \in ns)]_vars
    /\ [][("bbox" \in ns) => bbox' = bbox]_vars
C7_Witness == pc = 7 /\ ran = C7_Order /\ "tree" \in ns /\ dl_bbox = bbox /\ bbox # <<>>

\* C8 as claimed: two successive calls on the same image array, pmask and
\* parameters return the same root mask and bbox.
C8_Deterministic ==
    [][(SegReturned /\ ncalls' = ncalls + 1 /\ outcome'.kind = "returned")
        => (rmask' = rmask /\ bbox' = bbox)]_vars

\* C9: when a collaborator raises, the stage made no call after it and did not
\* call it twice, returns nothing, and the caller gets that same error.
C9_NoRecovery ==
    /\ (outcome.kind = "raised" /\ outcome.error \in Collaborators) =>
          /\ outcome.error = fault
          /\ calls # <<>> /\ calls[Len(calls)] = fault
          /\ Count(calls, fault) = 1
          /\ rmask = NoArray /\ bbox = <<>>
    /\ dl_outcome.kind = "raised" =>
          /\ dl_outcome.error = fault
          /\ dl_calls = <<"detect_leaves">>
          /\ seed_map = NoArray
\* the segmenter raised while the cleaner was still to be called
C9_Witness ==
    /\ outcome = Raised("segment_root") /\ min_dimension > 0
    /\ calls = <<"remove_background", "segment_root">>

\* C10: with min_dimension = 0 the cleaner is not called and the returned mask
\* is the restricted segmenter output; with min_dimension > 0 it is a subset.
C10_NoFilterAtZero ==
    SegReturned =>
        /\ min_dimension = 0 => ("clean_label" \notin Range(calls) /\ rmask = pre7)
        /\ min_dimension > 0 => \A q \in DOMAIN rmask : rmask[q] => pre7[q]
\* a returned mask, unfiltered, that keeps a one-pixel component
C10_Witness ==
    /\ SegReturned /\ min_dimension = 0
    /\ \E q \in DOMAIN rmask : rmask[q] /\ Component(rmask, q) = {q}

====
